---- MODULE Spec2Model ----
(***************************************************************************)
(* Model of updates-sucks: the version package (semver / calver / string   *)
(* parsing, comparison, filtering, sorting), GitScanner.GetLatestVersion   *)
(* and the scan command (cmd/scan.go: runScan, compareVersions).           *)
(*                                                                         *)
(* A Go string is modelled as a sequence of one-character strings, so that *)
(* prefixes, substrings, splitting and byte order are computed, not        *)
(* assumed.  A Go int is modelled as a sign and a normalised sequence of   *)
(* decimal digits, so that strconv.Atoi keeps its 64-bit range.            *)
(***************************************************************************)
EXTENDS Integers, Sequences, FiniteSets, TLC

VARIABLES
    \* ---- cmd/scan.go: runScan ----
    pc,            \* position of runScan: "start", "loop", "print", "exited"
    cfgFile,       \* the configuration file: [ok, repos]; ok = FALSE when it cannot be read or decoded
    cfgRepos,      \* cfg.Repositories once LoadConfig has returned
    scanArgs,      \* args of the scan command: <<>> or <<name>>
    reposToScan,   \* the list the loop ranges over
    results,       \* []output.ScanResult
    hasUpdates,
    hasErrors,
    exitCode,      \* -1 while running, else the process exit code
    summary,       \* Formatter.calculateSummary(results), set by PrintResults
    \* ---- latest-tag selection on one tag collection ----
    selPc,         \* "idle", "ready", "done"
    selTags,       \* the caller's tag slice
    selPolicy,     \* [scheme, ignorePrefix, ignoreSuffixes]
    selBefore,     \* the caller's tag slice as it was before the call
    selOut,        \* [err, latest, via]
    \* ---- comparison of version strings ----
    cmpPc,         \* "idle", "ready", "done"
    cmpIn,         \* <<a, b, c>>: three version strings
    cmpPolicy,     \* the versioning policy [Scheme, IgnorePrefix, IgnoreSuffixes]
    cmpOut         \* what the comparison functions returned on cmpIn

vars == <<pc, cfgFile, cfgRepos, scanArgs, reposToScan, results, hasUpdates,
          hasErrors, exitCode, summary, selPc, selTags, selPolicy, selBefore,
          selOut, cmpPc, cmpIn, cmpPolicy, cmpOut>>

scanVars == <<pc, cfgFile, cfgRepos, scanArgs, reposToScan, results, hasUpdates,
              hasErrors, exitCode, summary>>
selVars == <<selPc, selTags, selPolicy, selBefore, selOut>>
cmpVars == <<cmpPc, cmpIn, cmpPolicy, cmpOut>>

-----------------------------------------------------------------------------
(* Go strings                                                              *)

\* The bytes that occur in the model's strings, in ascending byte order.
ByteOrder ==
    << "+", "-", ".",
       "0", "1", "2", "3", "4", "5", "6", "7", "8", "9",
       "A", "B", "C", "D", "E", "F", "G", "H", "I", "J", "K", "L", "M",
       "N", "O", "P", "Q", "R", "S", "T", "U", "V", "W", "X", "Y", "Z",
       "a", "b", "c", "d", "e", "f", "g", "h", "i", "j", "k", "l", "m",
       "n", "o", "p", "q", "r", "s", "t", "u", "v", "w", "x", "y", "z" >>

Ord(c) == CHOOSE i \in 1..Len(ByteOrder) : ByteOrder[i] = c

DigitChars == {"0", "1", "2", "3", "4", "5", "6", "7", "8", "9"}

LetterChars ==
    {"A", "B", "C", "D", "E", "F", "G", "H", "I", "J", "K", "L", "M",
     "N", "O", "P", "Q", "R", "S", "T", "U", "V", "W", "X", "Y", "Z",
     "a", "b", "c", "d", "e", "f", "g", "h", "i", "j", "k", "l", "m",
     "n", "o", "p", "q", "r", "s", "t", "u", "v", "w", "x", "y", "z"}

\* Go's < on strings: bytewise lexicographic, a proper prefix is smaller.
RECURSIVE StrLess(_, _)
StrLess(a, b) ==
    IF Len(b) = 0 THEN FALSE
    ELSE IF Len(a) = 0 THEN TRUE
    ELSE IF a[1] = b[1] THEN StrLess(Tail(a), Tail(b))
    ELSE Ord(a[1]) < Ord(b[1])

HasPrefix(s, prefix) ==
    Len(prefix) <= Len(s) /\ SubSeq(s, 1, Len(prefix)) = prefix

TrimPrefix(s, prefix) ==
    IF HasPrefix(s, prefix) THEN SubSeq(s, Len(prefix) + 1, Len(s)) ELSE s

Contains(s, substr) ==
    \E i \in 1..(Len(s) - Len(substr) + 1) :
        SubSeq(s, i, i + Len(substr) - 1) = substr

\* Position of the first byte of s that is in set cs, 0 when there is none.
IndexAny(s, cs) ==
    IF \A i \in 1..Len(s) : s[i] \notin cs THEN 0
    ELSE CHOOSE i \in 1..Len(s) :
             s[i] \in cs /\ \A j \in 1..(i - 1) : s[j] \notin cs

\* strings.Split(s, sep) for a one-byte separator.
RECURSIVE Split(_, _)
Split(s, sep) ==
    LET i == IndexAny(s, {sep})
    IN  IF i = 0 THEN <<s>>
        ELSE <<SubSeq(s, 1, i - 1)>> \o Split(SubSeq(s, i + 1, Len(s)), sep)

AllIn(s, cs) == \A i \in 1..Len(s) : s[i] \in cs

-----------------------------------------------------------------------------
(* Go int (64 bit) and strconv.Atoi                                        *)

MaxInt64Digits ==
    << "9", "2", "2", "3", "3", "7", "2", "0", "3", "6",
       "8", "5", "4", "7", "7", "5", "8", "0", "7" >>

MinInt64Digits ==
    << "9", "2", "2", "3", "3", "7", "2", "0", "3", "6",
       "8", "5", "4", "7", "7", "5", "8", "0", "8" >>

\* A digit string without its leading zeros ("0" for zero).
RECURSIVE StripZeros(_)
StripZeros(d) ==
    IF Len(d) > 1 /\ d[1] = "0" THEN StripZeros(Tail(d)) ELSE d

\* Numeric < on normalised digit strings.
MagLess(a, b) ==
    Len(a) < Len(b) \/ (Len(a) = Len(b) /\ StrLess(a, b))

MkInt(neg, mag) == [neg |-> neg /\ mag # <<"0">>, mag |-> mag]

IntZero == MkInt(FALSE, <<"0">>)

IntLess(x, y) ==
    IF x.neg # y.neg THEN x.neg
    ELSE IF x.neg THEN MagLess(y.mag, x.mag)
    ELSE MagLess(x.mag, y.mag)

\* The int a digit string mag with sign neg converts to: outside the int
\* range the conversion fails and carries the nearest bound.
RangeChecked(neg, mag, bound) ==
    IF MagLess(bound, mag)
    THEN [err |-> TRUE, val |-> MkInt(neg, bound)]
    ELSE [err |-> FALSE, val |-> MkInt(neg, mag)]

\* The conversion of the digits after the optional sign.
AtoiBody(neg, body) ==
    IF Len(body) = 0 \/ ~AllIn(body, DigitChars)
    THEN [err |-> TRUE, val |-> IntZero]
    ELSE RangeChecked(neg, StripZeros(body),
                      IF neg THEN MinInt64Digits ELSE MaxInt64Digits)

\* strconv.Atoi: an optional sign, then one or more decimal digits; a value
\* outside the int range is an error and the value returned with it is the
\* nearest bound; a syntax error returns 0.
Atoi(s) ==
    IF Len(s) > 0 /\ s[1] \in {"+", "-"}
    THEN AtoiBody(s[1] = "-", Tail(s))
    ELSE AtoiBody(FALSE, s)

-----------------------------------------------------------------------------
(* package version                                                         *)

IdentChars == DigitChars \cup LetterChars \cup {"-"}

AllParts(parts, cs) ==
    \A k \in 1..Len(parts) : Len(parts[k]) > 0 /\ AllIn(parts[k], cs)

\* [0-9A-Za-z-]+(?:\.[0-9A-Za-z-]+)*
DottedIdents(s) == AllParts(Split(s, "."), IdentChars)

\* s up to its first byte in cs (all of s when there is none), and s from
\* that byte on (empty when there is none).
Before(s, cs) ==
    IF IndexAny(s, cs) = 0 THEN s ELSE SubSeq(s, 1, IndexAny(s, cs) - 1)

From(s, cs) ==
    IF IndexAny(s, cs) = 0 THEN <<>> ELSE SubSeq(s, IndexAny(s, cs), Len(s))

\* (\d+)\.(\d+)\.(\d+)
CoreMatch(nums) == Len(nums) = 3 /\ AllParts(nums, DigitChars)

\* (?:-(PRE))?(?:\+(BUILD))?$ on what follows the core: rest is empty or
\* starts with "-" or "+"; the pre-release ends at the first "+".
TailMatch(rest) ==
    /\ (Len(rest) > 0 /\ rest[1] = "-") => DottedIdents(Tail(Before(rest, {"+"})))
    /\ From(rest, {"+"}) # <<>> => DottedIdents(Tail(From(rest, {"+"})))

PreOf(rest) ==
    IF Len(rest) > 0 /\ rest[1] = "-" THEN Tail(Before(rest, {"+"})) ELSE <<>>

BuildOf(rest) ==
    IF From(rest, {"+"}) # <<>> THEN Tail(From(rest, {"+"})) ELSE <<>>

\* Whether semverRegex matches v:
\* ^(\d+)\.(\d+)\.(\d+)(?:-(PRE))?(?:\+(BUILD))?$
SemverRegexMatch(v) ==
    /\ CoreMatch(Split(Before(v, {"-", "+"}), "."))
    /\ TailMatch(From(v, {"-", "+"}))

NilVersion ==
    [Original |-> <<>>, Major |-> IntZero, Minor |-> IntZero, Patch |-> IntZero,
     PreRelease |-> <<>>, Build |-> <<>>]

\* The Version built from the submatches; the errors of strconv.Atoi are
\* discarded and its values kept.
VersionOf(version, nums, rest) ==
    [Original   |-> version,
     Major      |-> Atoi(nums[1]).val,
     Minor      |-> Atoi(nums[2]).val,
     Patch      |-> Atoi(nums[3]).val,
     PreRelease |-> PreOf(rest),
     Build      |-> BuildOf(rest)]

ParseTrimmed(version, v) ==
    IF ~SemverRegexMatch(v) THEN [err |-> TRUE, v |-> NilVersion]
    ELSE [err |-> FALSE,
          v   |-> VersionOf(version, Split(Before(v, {"-", "+"}), "."),
                            From(v, {"-", "+"}))]

ParseSemVer(version) == ParseTrimmed(version, TrimPrefix(version, <<"v">>))

\* Compare without the branch "pre-release is less than release".
Compare_NoPreLess(v, other) ==
    IF IntLess(other.Major, v.Major) THEN "Greater"
    ELSE IF IntLess(v.Major, other.Major) THEN "Less"
    ELSE IF IntLess(other.Minor, v.Minor) THEN "Greater"
    ELSE IF IntLess(v.Minor, other.Minor) THEN "Less"
    ELSE IF IntLess(other.Patch, v.Patch) THEN "Greater"
    ELSE IF IntLess(v.Patch, other.Patch) THEN "Less"
    ELSE IF v.PreRelease = <<>> /\ other.PreRelease # <<>> THEN "Greater"
    ELSE IF v.PreRelease # <<>> /\ other.PreRelease # <<>>
              /\ StrLess(other.PreRelease, v.PreRelease) THEN "Greater"
    ELSE IF v.PreRelease # <<>> /\ other.PreRelease # <<>>
              /\ StrLess(v.PreRelease, other.PreRelease) THEN "Less"
    ELSE "Equal"

\* (v *Version) Compare(other)
Compare(v, other) ==
    IF IntLess(other.Major, v.Major) THEN "Greater"
    ELSE IF IntLess(v.Major, other.Major) THEN "Less"
    ELSE IF IntLess(other.Minor, v.Minor) THEN "Greater"
    ELSE IF IntLess(v.Minor, other.Minor) THEN "Less"
    ELSE IF IntLess(other.Patch, v.Patch) THEN "Greater"
    ELSE IF IntLess(v.Patch, other.Patch) THEN "Less"
    ELSE IF v.PreRelease = <<>> /\ other.PreRelease # <<>> THEN "Greater"
    ELSE IF v.PreRelease # <<>> /\ other.PreRelease = <<>> THEN "Less"
    ELSE IF v.PreRelease # <<>> /\ other.PreRelease # <<>>
              /\ StrLess(other.PreRelease, v.PreRelease) THEN "Greater"
    ELSE IF v.PreRelease # <<>> /\ other.PreRelease # <<>>
              /\ StrLess(v.PreRelease, other.PreRelease) THEN "Less"
    ELSE "Equal"

CompareParsed(currentVer, latestVer) ==
    IF currentVer.err THEN [err |-> TRUE, res |-> "Equal"]
    ELSE IF latestVer.err THEN [err |-> TRUE, res |-> "Equal"]
    ELSE [err |-> FALSE, res |-> Compare(currentVer.v, latestVer.v)]

CompareSemVer(current, latest) ==
    CompareParsed(ParseSemVer(current), ParseSemVer(latest))

\* The loop of CompareCalVer from component i on: each round converts one
\* component of each side and returns at the first difference.
RECURSIVE CalVerLoop(_, _, _)
RECURSIVE CalVerRound(_, _, _, _, _)
CalVerRound(currentNum, latestNum, currentParts, latestParts, i) ==
    IF currentNum.err THEN [err |-> TRUE, res |-> "Equal"]
    ELSE IF latestNum.err THEN [err |-> TRUE, res |-> "Equal"]
    ELSE IF IntLess(latestNum.val, currentNum.val)
         THEN [err |-> FALSE, res |-> "Greater"]
    ELSE IF IntLess(currentNum.val, latestNum.val)
         THEN [err |-> FALSE, res |-> "Less"]
    ELSE CalVerLoop(currentParts, latestParts, i + 1)

CalVerLoop(currentParts, latestParts, i) ==
    IF i > 3 THEN [err |-> FALSE, res |-> "Equal"]
    ELSE CalVerRound(Atoi(currentParts[i]), Atoi(latestParts[i]),
                     currentParts, latestParts, i)

CompareCalVerParts(currentParts, latestParts) ==
    IF Len(currentParts) # 3 \/ Len(latestParts) # 3
    THEN [err |-> TRUE, res |-> "Equal"]
    ELSE CalVerLoop(currentParts, latestParts, 1)

CompareCalVer(current, latest) ==
    CompareCalVerParts(Split(current, "."), Split(latest, "."))

CompareString(current, latest) ==
    IF current = latest THEN [err |-> FALSE, res |-> "Equal"]
    ELSE IF StrLess(latest, current) THEN [err |-> FALSE, res |-> "Greater"]
    ELSE [err |-> FALSE, res |-> "Less"]

SemVerValid(tag) == ~ParseSemVer(tag).err

FilterValidSemVer(tags) == SelectSeq(tags, SemVerValid)

\* CalverParts without the width of the first component.
CalverParts_AnyYear(parts) ==
    /\ Len(parts) = 3
    /\ \A k \in 1..3 : AllIn(parts[k], DigitChars)
    /\ Len(parts[1]) >= 1
    /\ Len(parts[2]) \in 1..2
    /\ Len(parts[3]) >= 1

CalverParts(parts) ==
    /\ Len(parts) = 3
    /\ \A k \in 1..3 : AllIn(parts[k], DigitChars)
    /\ Len(parts[1]) = 4
    /\ Len(parts[2]) \in 1..2
    /\ Len(parts[3]) >= 1

\* calverRegex: ^(\d{4})\.(\d{1,2})\.(\d+)$
CalverRegexMatch(tag) == CalverParts(Split(tag, "."))

FilterValidCalVer(tags) == SelectSeq(tags, CalverRegexMatch)

Last(s) == s[Len(s)]

Front(s) == SubSeq(s, 1, Len(s) - 1)

\* sort.Slice / sort.Strings on fewer than 12 elements are an insertion
\* sort: each element moves left while it is less than its left neighbour.
\* InsertVersion with the comparison turned round (a descending sort).
RECURSIVE InsertVersion_Descending(_, _)
InsertVersion_Descending(sorted, x) ==
    IF Len(sorted) = 0 THEN <<x>>
    ELSE IF Compare(x, Last(sorted)) = "Greater"
         THEN Append(InsertVersion_Descending(Front(sorted), x), Last(sorted))
         ELSE Append(sorted, x)

RECURSIVE InsertVersion(_, _)
InsertVersion(sorted, x) ==
    IF Len(sorted) = 0 THEN <<x>>
    ELSE IF Compare(x, Last(sorted)) = "Less"
         THEN Append(InsertVersion(Front(sorted), x), Last(sorted))
         ELSE Append(sorted, x)

RECURSIVE SortVersions(_)
SortVersions(versions) ==
    IF Len(versions) = 0 THEN <<>>
    ELSE InsertVersion(SortVersions(Front(versions)), Last(versions))

RECURSIVE InsertString(_, _)
InsertString(sorted, x) ==
    IF Len(sorted) = 0 THEN <<x>>
    ELSE IF StrLess(x, Last(sorted))
         THEN Append(InsertString(Front(sorted), x), Last(sorted))
         ELSE Append(sorted, x)

\* sort.Strings
RECURSIVE SortStrings(_)
SortStrings(strs) ==
    IF Len(strs) = 0 THEN <<>>
    ELSE InsertString(SortStrings(Front(strs)), Last(strs))

ParsedVersions(tags) == [k \in 1..Len(tags) |-> ParseSemVer(tags[k]).v]

Originals(versions) == [k \in 1..Len(versions) |-> versions[k].Original]

\* SortSemVer: the tags that parse, sorted by Compare, as their originals.
SortSemVer(tags) ==
    Originals(SortVersions(ParsedVersions(FilterValidSemVer(tags))))

SortCalVer(tags) == SortStrings(FilterValidCalVer(tags))

Selected(validTags, sorted, tags) ==
    IF Len(validTags) = 0
    THEN [err |-> "no valid tags", latest |-> <<>>, tags |-> tags]
    ELSE [err |-> "", latest |-> Last(sorted), tags |-> tags]

\* version.GetLatestVersion(tags, scheme): tags is the caller's slice as the
\* call leaves it (the string scheme sorts it in place).
GetLatestVersion(tags, scheme) ==
    IF scheme = "semver"
    THEN Selected(FilterValidSemVer(tags), SortSemVer(FilterValidSemVer(tags)), tags)
    ELSE IF scheme = "calver"
    THEN Selected(FilterValidCalVer(tags), SortCalVer(FilterValidCalVer(tags)), tags)
    ELSE IF scheme = "string"
    THEN Selected(tags, SortStrings(tags), SortStrings(tags))
    ELSE [err |-> "unsupported scheme", latest |-> <<>>, tags |-> tags]

-----------------------------------------------------------------------------
(* package config                                                          *)

\* *Versioning: IsNil marks the nil pointer.
NilVersioning ==
    [IsNil |-> TRUE, Scheme |-> "", IgnorePrefix |-> <<>>, IgnoreSuffixes |-> <<>>]

Versioning(scheme, ignorePrefix, ignoreSuffixes) ==
    [IsNil |-> FALSE, Scheme |-> scheme, IgnorePrefix |-> ignorePrefix,
     IgnoreSuffixes |-> ignoreSuffixes]

\* *Auth: IsNil marks the nil pointer.
NilAuth == [IsNil |-> TRUE, Type |-> "", EnvVariable |-> ""]

\* LoadConfig's defaults for one repository: a missing versioning block and
\* an empty scheme both become scheme "semver".
DefaultVersioning(repo) ==
    LET v1 == IF repo.Versioning.IsNil
              THEN Versioning("semver", <<>>, <<>>)
              ELSE repo.Versioning
        v2 == IF v1.Scheme = "" THEN [v1 EXCEPT !.Scheme = "semver"] ELSE v1
    IN  [repo EXCEPT !.Versioning = v2]

LoadConfig(fileRepos) == [i \in 1..Len(fileRepos) |-> DefaultVersioning(fileRepos[i])]

\* (c *Config) FindRepository(name): index of the first repository with that
\* name, 0 for nil.
FindRepository(repos, name) ==
    IF \A i \in 1..Len(repos) : repos[i].Name # name THEN 0
    ELSE CHOOSE i \in 1..Len(repos) :
             repos[i].Name = name /\ \A j \in 1..(i - 1) : repos[j].Name # name

-----------------------------------------------------------------------------
(* package scanner                                                         *)

Trimmed(tags, prefix) == [k \in 1..Len(tags) |-> TrimPrefix(tags[k], prefix)]

\* removePrefix keeping the tags that do not carry the prefix.
removePrefix_KeepAll(tags, prefix) == Trimmed(tags, prefix)

removePrefix(tags, prefix) ==
    Trimmed(SelectSeq(tags, LAMBDA tag : HasPrefix(tag, prefix)), prefix)

\* filterSuffixes matching the entries at the end of the tag only.
filterSuffixes_Anchored(tags, ignoreSuffixes) ==
    SelectSeq(tags, LAMBDA tag :
        ~\E k \in 1..Len(ignoreSuffixes) :
            /\ Len(ignoreSuffixes[k]) <= Len(tag)
            /\ SubSeq(tag, Len(tag) - Len(ignoreSuffixes[k]) + 1, Len(tag))
                   = ignoreSuffixes[k])

filterSuffixes(tags, ignoreSuffixes) ==
    SelectSeq(tags, LAMBDA tag :
        ~\E k \in 1..Len(ignoreSuffixes) : Contains(tag, ignoreSuffixes[k]))

getValidTags(tags, scheme) ==
    IF scheme = "semver" THEN FilterValidSemVer(tags)
    ELSE IF scheme = "calver" THEN FilterValidCalVer(tags)
    ELSE tags

\* findLatestVersionFromValidTags taking any other scheme as "string".
findLatestVersionFromValidTags_Fallback(validTags, scheme) ==
    IF Len(validTags) = 0 THEN [err |-> "no valid tags", latest |-> <<>>]
    ELSE IF scheme = "semver"
    THEN [err |-> "", latest |-> Last(SortSemVer(validTags))]
    ELSE IF scheme = "calver"
    THEN [err |-> "", latest |-> Last(SortCalVer(validTags))]
    ELSE [err |-> "", latest |-> Last(SortStrings(validTags))]

findLatestVersionFromValidTags(validTags, scheme) ==
    IF Len(validTags) = 0 THEN [err |-> "no valid tags", latest |-> <<>>]
    ELSE IF scheme = "semver"
    THEN [err |-> "", latest |-> Last(SortSemVer(validTags))]
    ELSE IF scheme = "calver"
    THEN [err |-> "", latest |-> Last(SortCalVer(validTags))]
    ELSE IF scheme = "string"
    THEN [err |-> "", latest |-> Last(SortStrings(validTags))]
    ELSE [err |-> "unsupported scheme", latest |-> <<>>]

\* scheme := "semver"; if Versioning != nil && Versioning.Scheme != "" ...
SchemeOf(versioning) ==
    IF ~versioning.IsNil /\ versioning.Scheme # "" THEN versioning.Scheme
    ELSE "semver"

PrefixSet(versioning) == ~versioning.IsNil /\ versioning.IgnorePrefix # <<>>

\* "Remove prefix if configured"
StripConfigured(tags, versioning) ==
    IF PrefixSet(versioning) THEN removePrefix(tags, versioning.IgnorePrefix)
    ELSE tags

\* "Filter out tags with ignored suffixes if configured"
DropIgnored(validTags, versioning) ==
    IF ~versioning.IsNil /\ Len(versioning.IgnoreSuffixes) > 0
    THEN filterSuffixes(validTags, versioning.IgnoreSuffixes)
    ELSE validTags

\* Reported leaving the prefix off.
Reported_Stripped(found, versioning) ==
    IF found.err # "" THEN [err |-> found.err, latest |-> <<>>]
    ELSE [err |-> "", latest |-> found.latest]

\* "Add prefix back if it was removed"
Reported(found, versioning) ==
    IF found.err # "" THEN [err |-> found.err, latest |-> <<>>]
    ELSE IF PrefixSet(versioning)
    THEN [err |-> "", latest |-> versioning.IgnorePrefix \o found.latest]
    ELSE [err |-> "", latest |-> found.latest]

\* The tags findLatestVersionFromValidTags is given: the prefix stripped,
\* the scheme-valid tags kept, the ignored suffixes dropped.
Candidates(tags, versioning) ==
    DropIgnored(getValidTags(StripConfigured(tags, versioning), SchemeOf(versioning)),
                versioning)

\* GitScanner.GetLatestVersion from the parsed tags on.
SelectLatestTag(tags, versioning) ==
    Reported(findLatestVersionFromValidTags(Candidates(tags, versioning),
                                            SchemeOf(versioning)),
             versioning)

\* GitScanner.GetLatestVersion(repo).  repo.Token is what os.Getenv gives for
\* the repository's auth variable, repo.Remote what git ls-remote and
\* parseTags give: ok = FALSE when the command fails, else the tag names.
GitScannerGetLatestVersion(repo) ==
    IF repo.Type # "git" THEN [err |-> "unsupported type", latest |-> <<>>]
    ELSE IF ~repo.Auth.IsNil /\ repo.Auth.EnvVariable # "" /\ repo.Token = ""
        THEN [err |-> "no token", latest |-> <<>>]
    ELSE IF ~repo.Auth.IsNil /\ repo.Auth.EnvVariable # ""
              /\ repo.Auth.Type \notin {"token", "ssh"}
        THEN [err |-> "unsupported auth", latest |-> <<>>]
    ELSE IF ~repo.Remote.ok THEN [err |-> "ls-remote failed", latest |-> <<>>]
    ELSE IF Len(repo.Remote.tags) = 0 THEN [err |-> "no tags", latest |-> <<>>]
    ELSE SelectLatestTag(repo.Remote.tags, repo.Versioning)

-----------------------------------------------------------------------------
(* package cmd: compareVersions                                            *)

\* "Remove prefix if configured"
CmpForm(version, versioning) ==
    IF PrefixSet(versioning) THEN TrimPrefix(version, versioning.IgnorePrefix)
    ELSE version

\* Verdict asking for an update whenever the two versions differ.
Verdict_NotEqual(result) ==
    IF result.err THEN [err |-> "parse", needsUpdate |-> FALSE]
    ELSE [err |-> "", needsUpdate |-> (result.res # "Equal")]

\* return result == version.Less, nil / return false, err
Verdict(result) ==
    IF result.err THEN [err |-> "parse", needsUpdate |-> FALSE]
    ELSE [err |-> "", needsUpdate |-> (result.res = "Less")]

\* switch scheme { ... }
CompareByScheme(currentCmp, latestCmp, scheme) ==
    IF scheme = "semver" THEN Verdict(CompareSemVer(currentCmp, latestCmp))
    ELSE IF scheme = "calver" THEN Verdict(CompareCalVer(currentCmp, latestCmp))
    ELSE IF scheme = "string" THEN Verdict(CompareString(currentCmp, latestCmp))
    ELSE [err |-> "unsupported scheme", needsUpdate |-> FALSE]

compareVersions(current, latest, versioning) ==
    CompareByScheme(CmpForm(current, versioning), CmpForm(latest, versioning),
                    SchemeOf(versioning))

-----------------------------------------------------------------------------
(* package output                                                          *)

CountStatus(rs, status) == Cardinality({i \in 1..Len(rs) : rs[i].Status = status})

\* calculateSummary without the "ERROR" case.
calculateSummary_NoErrorCase(rs) ==
    [Total            |-> Len(rs),
     UpToDate         |-> CountStatus(rs, "UP_TO_DATE"),
     UpdatesAvailable |-> CountStatus(rs, "UPDATE_AVAILABLE"),
     Errors           |-> 0]

\* Formatter.calculateSummary
calculateSummary(rs) ==
    [Total            |-> Len(rs),
     UpToDate         |-> CountStatus(rs, "UP_TO_DATE"),
     UpdatesAvailable |-> CountStatus(rs, "UPDATE_AVAILABLE"),
     Errors           |-> CountStatus(rs, "ERROR")]

NoSummary == [Total |-> 0, UpToDate |-> 0, UpdatesAvailable |-> 0, Errors |-> 0]

-----------------------------------------------------------------------------
(* Inputs                                                                  *)

\* Bounds of the model.
MaxRepos == 3
MaxTags == 3

S_v1_2_0 == <<"v", "1", ".", "2", ".", "0">>
S_v1_3_0 == <<"v", "1", ".", "3", ".", "0">>
S_v1_2_5 == <<"v", "1", ".", "2", ".", "5">>
S_v1_4_0_rc_1 == <<"v", "1", ".", "4", ".", "0", "-", "r", "c", ".", "1">>
S_1_3_0_b1 == <<"1", ".", "3", ".", "0", "+", "b", "1">>
S_1_3_0 == <<"1", ".", "3", ".", "0">>
S_2024_5_1 == <<"2", "0", "2", "4", ".", "5", ".", "1">>
S_2024_10_1 == <<"2", "0", "2", "4", ".", "1", "0", ".", "1">>
S_not_a_version == <<"n", "o", "t", "-", "a", "-", "v", "e", "r", "s", "i", "o", "n">>
S_v1_0_0 == <<"v", "1", ".", "0", ".", "0">>
S_v1_0_0_rc_1 == <<"v", "1", ".", "0", ".", "0", "-", "r", "c", ".", "1">>
S_1_0_0_beta == <<"1", ".", "0", ".", "0", "-", "b", "e", "t", "a">>
S_1_0_0_b1 == <<"1", ".", "0", ".", "0", "+", "b", "1">>
S_1_2_0 == <<"1", ".", "2", ".", "0">>
S_v1_10_0 == <<"v", "1", ".", "1", "0", ".", "0">>
S_2023_x_1 == <<"2", "0", "2", "3", ".", "x", ".", "1">>
S_24_5_1 == <<"2", "4", ".", "5", ".", "1">>
S_2024_m5_1 == <<"2", "0", "2", "4", ".", "-", "5", ".", "1">>
S_v == <<"v">>
S_rc == <<"r", "c">>
\* 1.0.<MaxInt64> and 1.0.<MaxInt64 + 1>
S_1_0_max == <<"1", ".", "0", ".">> \o MaxInt64Digits
S_1_0_over == <<"1", ".", "0", ".">> \o MinInt64Digits
S_2024_1_0 == <<"2", "0", "2", "4", ".", "1", ".", "0">>
\* 2024.1.<MaxInt64 + 1>
S_2024_1_over == <<"2", "0", "2", "4", ".", "1", ".">> \o MinInt64Digits

Repo(name, type, current, versioning, auth, token, remote) ==
    [Name |-> name, Type |-> type, CurrentVersion |-> current,
     Versioning |-> versioning, Auth |-> auth, Token |-> token, Remote |-> remote]

Listing(tags) == [ok |-> TRUE, tags |-> tags]
ListingFailed == [ok |-> FALSE, tags |-> <<>>]
TokenAuth == [IsNil |-> FALSE, Type |-> "token", EnvVariable |-> "GITHUB_TOKEN"]
BasicAuth == [IsNil |-> FALSE, Type |-> "basic", EnvVariable |-> "GITHUB_TOKEN"]

\* The repositories a configuration file is drawn from, with what the
\* environment and the remote give for each.
RepoPool ==
    { Repo("k8s", "git", S_v1_2_0, Versioning("semver", S_v, <<>>), NilAuth, "",
           Listing(<<S_v1_2_0, S_v1_3_0, S_v1_2_5>>)),
      Repo("docker", "git", S_1_3_0, NilVersioning, TokenAuth, "secret",
           Listing(<<S_v1_3_0, S_not_a_version>>)),
      Repo("k8s", "git", S_2023_x_1, Versioning("calver", <<>>, <<>>), NilAuth, "",
           Listing(<<S_2024_5_1>>)),
      Repo("docker", "git", S_2024_5_1, Versioning("calver", <<>>, <<>>), NilAuth, "",
           Listing(<<S_2024_5_1, S_2024_10_1>>)),
      Repo("k8s", "git", S_v1_2_0, Versioning("string", <<>>, <<>>), NilAuth, "",
           Listing(<<S_v1_2_0, S_not_a_version>>)),
      Repo("docker", "git", S_v1_2_0, Versioning("custom", <<>>, <<>>), NilAuth, "",
           Listing(<<S_v1_2_0, S_v1_3_0>>)),
      Repo("k8s", "svn", S_v1_2_0, Versioning("semver", <<>>, <<>>), NilAuth, "",
           Listing(<<S_v1_3_0>>)),
      Repo("docker", "git", S_v1_2_0, Versioning("semver", <<>>, <<>>), NilAuth, "",
           ListingFailed),
      Repo("k8s", "git", S_not_a_version, Versioning("semver", <<>>, <<>>), NilAuth, "",
           Listing(<<S_v1_3_0>>)),
      Repo("docker", "git", S_v1_3_0, Versioning("", <<>>, <<S_rc>>), NilAuth, "",
           Listing(<<S_v1_3_0, S_v1_4_0_rc_1>>)),
      Repo("k8s", "git", S_v1_2_0, Versioning("semver", <<>>, <<>>), TokenAuth, "",
           Listing(<<S_v1_3_0>>)),
      Repo("docker", "git", S_v1_2_0, Versioning("semver", <<>>, <<>>), BasicAuth, "secret",
           Listing(<<S_v1_3_0>>)),
      Repo("k8s", "git", S_v1_2_0, Versioning("semver", <<>>, <<>>), NilAuth, "",
           Listing(<<S_not_a_version>>)),
      Repo("docker", "git", S_v1_3_0, Versioning("semver", S_v, <<>>), NilAuth, "",
           Listing(<<S_v1_2_0, S_v1_2_5>>)),
      Repo("k8s", "git", S_2024_1_0, Versioning("calver", <<>>, <<>>), NilAuth, "",
           Listing(<<S_2024_1_over>>)) }

ArgsPool == {<<>>, <<"k8s">>, <<"docker">>, <<"absent">>}

\* All sequences over set S of length at most n.
SeqsUpTo(S, n) == UNION {[1..k -> S] : k \in 0..n}

\* The raw tags a remote listing is drawn from.
TagPool ==
    {S_v1_2_0, S_v1_3_0, S_v1_2_5, S_v1_4_0_rc_1, S_1_3_0_b1,
     S_2024_5_1, S_2024_10_1, S_not_a_version}

SchemePool == {"", "semver", "calver", "string", "custom"}

PolicyPool ==
    {NilVersioning} \cup
    {Versioning(sc, px, sx) :
        sc \in SchemePool, px \in {<<>>, S_v}, sx \in {<<>>, <<S_rc, S_v>>}}

\* The version strings comparisons are drawn from.
VersionPool ==
    {S_v1_0_0, S_v1_0_0_rc_1, S_1_0_0_beta, S_1_0_0_b1, S_1_2_0, S_v1_10_0,
     S_1_0_max, S_1_0_over, S_not_a_version,
     S_2024_5_1, S_2024_10_1, S_2023_x_1, S_24_5_1, S_2024_m5_1, S_2024_1_over}

ComparePolicyPool ==
    {NilVersioning} \cup
    {Versioning(sc, px, <<>>) : sc \in SchemePool, px \in {<<>>, S_v}}

-----------------------------------------------------------------------------
(* cmd/scan.go: runScan                                                    *)

ScanIdle ==
    /\ pc = "idle" /\ cfgFile = [ok |-> FALSE, repos |-> <<>>]
    /\ cfgRepos = <<>> /\ scanArgs = <<>> /\ reposToScan = <<>>
    /\ results = <<>> /\ hasUpdates = FALSE /\ hasErrors = FALSE
    /\ exitCode = -1 /\ summary = NoSummary

SelIdle ==
    /\ selPc = "idle" /\ selTags = <<>> /\ selPolicy = NilVersioning
    /\ selBefore = <<>> /\ selOut = [err |-> "", latest |-> <<>>, via |-> ""]

NoCompare == [err |-> FALSE, res |-> "Equal"]

NoCmpOut ==
    [needs |-> [err |-> "", needsUpdate |-> FALSE],
     ab |-> NoCompare, ba |-> NoCompare, bc |-> NoCompare, ac |-> NoCompare,
     aa |-> NoCompare, calab |-> NoCompare, calaa |-> NoCompare,
     calbb |-> NoCompare, filtered |-> <<>>]

CmpIdle ==
    /\ cmpPc = "idle" /\ cmpIn = <<<<>>, <<>>, <<>>>>
    /\ cmpPolicy = NilVersioning /\ cmpOut = NoCmpOut

Init ==
    /\ pc = "start"
    /\ cfgFile \in {[ok |-> FALSE, repos |-> <<>>]} \cup
                   {[ok |-> TRUE, repos |-> rs] : rs \in SeqsUpTo(RepoPool, MaxRepos)}
    /\ scanArgs \in ArgsPool
    /\ cfgRepos = <<>> /\ reposToScan = <<>>
    /\ results = <<>> /\ hasUpdates = FALSE /\ hasErrors = FALSE
    /\ exitCode = -1 /\ summary = NoSummary
    /\ SelIdle /\ CmpIdle

\* LoadConfig fails: os.Exit(2).
ConfigError ==
    /\ pc = "start" /\ ~cfgFile.ok
    /\ pc' = "exited" /\ exitCode' = 2
    /\ UNCHANGED <<cfgFile, cfgRepos, scanArgs, reposToScan, results,
                   hasUpdates, hasErrors, summary>>
    /\ UNCHANGED <<selVars, cmpVars>>

\* A repository is named and FindRepository returns nil: os.Exit(2).
RepoNotFound ==
    /\ pc = "start" /\ cfgFile.ok
    /\ Len(scanArgs) = 1
    /\ FindRepository(LoadConfig(cfgFile.repos), scanArgs[1]) = 0
    /\ cfgRepos' = LoadConfig(cfgFile.repos)
    /\ pc' = "exited" /\ exitCode' = 2
    /\ UNCHANGED <<cfgFile, scanArgs, reposToScan, results,
                   hasUpdates, hasErrors, summary>>
    /\ UNCHANGED <<selVars, cmpVars>>

\* The configuration is loaded and reposToScan is set: the named
\* repository, or all of them.
BeginScan ==
    /\ pc = "start" /\ cfgFile.ok
    /\ \E cfg \in {LoadConfig(cfgFile.repos)} :
       \E i \in {IF Len(scanArgs) = 1 THEN FindRepository(cfg, scanArgs[1]) ELSE 0} :
           /\ Len(scanArgs) = 1 => i # 0
           /\ cfgRepos' = cfg
           /\ reposToScan' = IF Len(scanArgs) = 1 THEN <<cfg[i]>> ELSE cfg
    /\ pc' = "loop"
    /\ UNCHANGED <<cfgFile, scanArgs, results, hasUpdates, hasErrors,
                   exitCode, summary>>
    /\ UNCHANGED <<selVars, cmpVars>>

ScanResult(repo, status, latest, error) ==
    [Name |-> repo.Name, CurrentVersion |-> repo.CurrentVersion,
     Status |-> status, LatestVersion |-> latest, Error |-> error]

\* The result once the latest version is known: "Compare versions".
Compared(repo, latestVersion, cmp) ==
    IF cmp.err # ""
    THEN ScanResult(repo, "ERROR", latestVersion, "Version comparison error")
    ELSE IF cmp.needsUpdate
    THEN ScanResult(repo, "UPDATE_AVAILABLE", latestVersion, "")
    ELSE ScanResult(repo, "UP_TO_DATE", latestVersion, "")

\* The result given what GetLatestVersion returned.
Scanned(repo, got) ==
    IF got.err # "" THEN ScanResult(repo, "ERROR", <<>>, got.err)
    ELSE Compared(repo, got.latest,
                  compareVersions(repo.CurrentVersion, got.latest, repo.Versioning))

\* The ScanResult of one repository (one round of the loop).
ScanRepository(repo) == Scanned(repo, GitScannerGetLatestVersion(repo))

\* One round of the loop over reposToScan.
ScanOne ==
    /\ pc = "loop"
    /\ Len(results) < Len(reposToScan)
    /\ \E result \in {ScanRepository(reposToScan[Len(results) + 1])} :
           /\ results' = Append(results, result)
           /\ hasErrors' = (hasErrors \/ result.Status = "ERROR")
           /\ hasUpdates' = (hasUpdates \/ result.Status = "UPDATE_AVAILABLE")
    /\ UNCHANGED <<pc, cfgFile, cfgRepos, scanArgs, reposToScan, exitCode, summary>>
    /\ UNCHANGED <<selVars, cmpVars>>

\* ExitCodeOf with the two tests in the other order.
ExitCodeOf_UpdatesFirst(errors, updates) ==
    IF updates THEN 1 ELSE IF errors THEN 3 ELSE 0

\* ExitCodeOf without the hasUpdates test.
ExitCodeOf_NoUpdates(errors, updates) ==
    IF errors THEN 3 ELSE 0

\* The exit code runScan ends the process with (returning nil exits 0).
ExitCodeOf(errors, updates) ==
    IF errors THEN 3 ELSE IF updates THEN 1 ELSE 0

\* After the loop: PrintResults, then the exit code.
PrintAndExit ==
    /\ pc = "loop"
    /\ Len(results) = Len(reposToScan)
    /\ summary' = calculateSummary(results)
    /\ exitCode' = ExitCodeOf(hasErrors, hasUpdates)
    /\ pc' = "exited"
    /\ UNCHANGED <<cfgFile, cfgRepos, scanArgs, reposToScan, results,
                   hasUpdates, hasErrors>>
    /\ UNCHANGED <<selVars, cmpVars>>

Next == ConfigError \/ RepoNotFound \/ BeginScan \/ ScanOne \/ PrintAndExit

Spec == Init /\ [][Next]_vars

-----------------------------------------------------------------------------
(* Latest-tag selection applied to one tag collection                      *)

SelInit ==
    /\ selPc = "ready"
    /\ selTags \in SeqsUpTo(TagPool, MaxTags)
    /\ selPolicy \in PolicyPool
    /\ selBefore = selTags
    /\ selOut = [err |-> "", latest |-> <<>>, via |-> ""]
    /\ ScanIdle /\ CmpIdle

\* GitScanner.GetLatestVersion on the listed tags (the listing is not empty).
SelectByScanner ==
    /\ selPc = "ready"
    /\ Len(selTags) > 0
    /\ \E got \in {SelectLatestTag(selTags, selPolicy)} :
           selOut' = [err |-> got.err, latest |-> got.latest, via |-> "scanner"]
    /\ selPc' = "done"
    /\ UNCHANGED <<selTags, selPolicy, selBefore>>
    /\ UNCHANGED <<scanVars, cmpVars>>

\* version.GetLatestVersion on the caller's slice.
SelectByVersion ==
    /\ selPc = "ready"
    /\ \E got \in {GetLatestVersion(selTags, SchemeOf(selPolicy))} :
           /\ selOut' = [err |-> got.err, latest |-> got.latest, via |-> "version"]
           /\ selTags' = got.tags
    /\ selPc' = "done"
    /\ UNCHANGED <<selPolicy, selBefore>>
    /\ UNCHANGED <<scanVars, cmpVars>>

SelNext == SelectByScanner \/ SelectByVersion

SpecSel == SelInit /\ [][SelNext]_vars

-----------------------------------------------------------------------------
(* Comparison applied to version strings                                   *)

CmpInit ==
    /\ cmpPc = "ready"
    /\ cmpIn \in VersionPool \X VersionPool \X VersionPool
    /\ cmpPolicy \in ComparePolicyPool
    /\ cmpOut = NoCmpOut
    /\ ScanIdle /\ SelIdle

\* compareVersions(a, b, policy), CompareSemVer and CompareCalVer on the
\* pairs of <<a, b, c>>, and FilterValidCalVer on the three strings.
CompareAll ==
    /\ cmpPc = "ready"
    /\ \E a \in {cmpIn[1]}, b \in {cmpIn[2]}, c \in {cmpIn[3]} :
           cmpOut' = [needs |-> compareVersions(a, b, cmpPolicy),
                      ab |-> CompareSemVer(a, b), ba |-> CompareSemVer(b, a),
                      bc |-> CompareSemVer(b, c), ac |-> CompareSemVer(a, c),
                      aa |-> CompareSemVer(a, a),
                      calab |-> CompareCalVer(a, b),
                      calaa |-> CompareCalVer(a, a),
                      calbb |-> CompareCalVer(b, b),
                      filtered |-> FilterValidCalVer(<<a, b, c>>)]
    /\ cmpPc' = "done"
    /\ UNCHANGED <<cmpIn, cmpPolicy>>
    /\ UNCHANGED <<scanVars, selVars>>

CmpNext == CompareAll

SpecCmp == CmpInit /\ [][CmpNext]_vars

-----------------------------------------------------------------------------
(* One policy given to latest-tag selection and to compareVersions         *)

SchemeTagPool == {S_v1_2_0, S_1_3_0_b1, S_v1_4_0_rc_1}

SchemeVersionPool == {S_v1_0_0, S_v1_10_0}

SchemeInit ==
    /\ selPc = "ready"
    /\ selTags \in SeqsUpTo(SchemeTagPool, MaxTags)
    /\ selPolicy \in PolicyPool
    /\ selBefore = selTags
    /\ selOut = [err |-> "", latest |-> <<>>, via |-> ""]
    /\ cmpPc = "ready"
    /\ cmpIn \in SchemeVersionPool \X SchemeVersionPool \X SchemeVersionPool
    /\ cmpPolicy = selPolicy
    /\ cmpOut = NoCmpOut
    /\ ScanIdle

SchemeNext == SelectByScanner \/ SelectByVersion \/ CompareAll

SpecScheme == SchemeInit /\ [][SchemeNext]_vars

-----------------------------------------------------------------------------
(* Properties                                                              *)

Scanned_Done == pc = "exited" /\ exitCode # 2

SomeStatus(status) == \E i \in 1..Len(results) : results[i].Status = status

AllStatus(status) == \A i \in 1..Len(results) : results[i].Status = status

\* C1: once runScan has scanned its repositories (the configuration was
\* loaded and the named repository found), the exit code is 3 exactly when
\* some repository's result is ERROR, whatever the other results and their
\* order.
C1_ExitThreeIffError ==
    Scanned_Done =>
        /\ Len(results) = Len(reposToScan)
        /\ exitCode = 3 <=> SomeStatus("ERROR")

C1_Witness ==
    /\ Scanned_Done /\ exitCode = 3 /\ Len(results) = 3
    /\ results[1].Status = "UPDATE_AVAILABLE"
    /\ results[2].Status = "ERROR"
    /\ results[3].Status = "UP_TO_DATE"

\* C2 as stated: the exit code is 1 whenever some result is
\* UPDATE_AVAILABLE, and 0 only when every result is UP_TO_DATE.
C2_Original ==
    Scanned_Done =>
        /\ SomeStatus("UPDATE_AVAILABLE") => exitCode = 1
        /\ exitCode = 0 => AllStatus("UP_TO_DATE")

\* C2, amended: the exit code is 1 whenever some result is UPDATE_AVAILABLE
\* and none is ERROR, and 0 only when every result is UP_TO_DATE.
C2_ExitOneUnlessError ==
    Scanned_Done =>
        /\ (SomeStatus("UPDATE_AVAILABLE") /\ ~SomeStatus("ERROR")) => exitCode = 1
        /\ exitCode = 0 => AllStatus("UP_TO_DATE")

C2_Witness ==
    /\ Scanned_Done /\ exitCode = 1 /\ Len(results) = 2
    /\ results[1].Status = "UP_TO_DATE"
    /\ results[2].Status = "UPDATE_AVAILABLE"

\* ---- selection ----

Elems(seq) == {seq[k] : k \in 1..Len(seq)}

SelScheme == SchemeOf(selPolicy)

\* A string is valid for a scheme when the scheme's parser takes it.
ValidFor(str, scheme) ==
    IF scheme = "semver" THEN SemVerValid(str)
    ELSE IF scheme = "calver" THEN CalverRegexMatch(str)
    ELSE TRUE

HasIgnored(str, versioning) ==
    /\ ~versioning.IsNil
    /\ \E k \in 1..Len(versioning.IgnoreSuffixes) :
           Contains(str, versioning.IgnoreSuffixes[k])

\* The raw tags of the collection that survive the policy's prefix rule, the
\* scheme's validity test and the suffix rule (the package function
\* version.GetLatestVersion knows only the scheme).
Surviving ==
    IF selOut.via = "scanner"
    THEN {t \in Elems(selBefore) :
             /\ PrefixSet(selPolicy) => HasPrefix(t, selPolicy.IgnorePrefix)
             /\ ValidFor(CmpForm(t, selPolicy), SelScheme)
             /\ ~HasIgnored(CmpForm(t, selPolicy), selPolicy)}
    ELSE {t \in Elems(selBefore) : ValidFor(t, SelScheme)}

\* The selected tag as it is compared: without the prefix put back.
SelStripped ==
    IF selOut.via = "scanner" THEN CmpForm(selOut.latest, selPolicy)
    ELSE selOut.latest

SelStrip(t) == IF selOut.via = "scanner" THEN CmpForm(t, selPolicy) ELSE t

Selected_Ok == selPc = "done" /\ selOut.err = ""

\* C3: under scheme semver, when some tag of the collection survives, the
\* selected tag is a semver-valid member of the collection and no surviving
\* tag compares Greater than it under Version.Compare, whatever the order of
\* the tags.
C3_SemVerLatestIsMax ==
    (selPc = "done" /\ SelScheme = "semver") =>
        LET surviving == Surviving
        IN  surviving # {} =>
                /\ selOut.err = ""
                /\ selOut.latest \in surviving
                /\ SemVerValid(SelStripped)
                /\ \A t \in surviving :
                       CompareSemVer(SelStrip(t), SelStripped).res # "Greater"

C3_Witness ==
    /\ Selected_Ok /\ selOut.via = "scanner"
    /\ selBefore = <<S_v1_2_0, S_v1_3_0, S_v1_2_5>>
    /\ selPolicy = Versioning("semver", <<>>, <<>>)
    /\ selOut.latest = S_v1_3_0

\* C4 as stated: under scheme calver the selected tag is a maximum under
\* CompareCalVer: CompareCalVer(selected, t) is never Less for a surviving
\* tag t.
C4_CalVerLatestIsMax ==
    (Selected_Ok /\ SelScheme = "calver") =>
        \A t \in Surviving :
            CompareCalVer(SelStripped, SelStrip(t)).res # "Less"

\* C9 as stated: no raw tag that contains an ignoreSuffixes entry is reported
\* as the latest version.
C9_Original ==
    (Selected_Ok /\ selOut.via = "scanner") => ~HasIgnored(selOut.latest, selPolicy)

\* C9, amended: no tag whose form without ignorePrefix contains an
\* ignoreSuffixes entry is reported as the latest version.
C9_NoIgnoredSuffixReported ==
    (Selected_Ok /\ selOut.via = "scanner") => ~HasIgnored(SelStripped, selPolicy)

C9_Witness ==
    /\ Selected_Ok /\ selOut.via = "scanner"
    /\ selPolicy = Versioning("semver", S_v, <<S_rc, S_v>>)
    /\ selBefore = <<S_v1_4_0_rc_1, S_v1_3_0, S_v1_2_5>>
    /\ selOut.latest = S_v1_3_0

\* C10: under a supported scheme a scheme-invalid tag is dropped and causes no
\* error while some tag survives the filters, the selected tag then being a
\* surviving tag; when no tag survives, selection fails and reports no
\* latest version.
C10_InvalidDroppedEmptyFails ==
    (selPc = "done" /\ SelScheme \in {"semver", "calver", "string"}) =>
        LET surviving == Surviving
        IN  /\ surviving # {} => (selOut.err = "" /\ selOut.latest \in surviving)
            /\ surviving = {} => (selOut.err # "" /\ selOut.latest = <<>>)

C10_Witness ==
    /\ Selected_Ok /\ selOut.via = "scanner" /\ SelScheme = "semver"
    /\ selBefore = <<S_not_a_version, S_v1_2_0, S_2024_5_1>>
    /\ selOut.latest = S_v1_2_0

\* ---- comparison ----

Compared_Done == cmpPc = "done"

CmpScheme == SchemeOf(cmpPolicy)

InFiltered(str) == \E k \in 1..Len(cmpOut.filtered) : cmpOut.filtered[k] = str

\* The positions of the dots of str.
Dots(str) == {i \in 1..Len(str) : str[i] = "."}

\* Reference: a non-empty run of decimal digits.
IsDigits(str) == Len(str) > 0 /\ \A i \in 1..Len(str) : str[i] \in DigitChars

\* Reference: str is three dot-separated non-negative integers.
ThreeNumbers(str) ==
    /\ Cardinality(Dots(str)) = 2
    /\ \E p \in Dots(str), q \in Dots(str) :
           /\ p < q
           /\ IsDigits(SubSeq(str, 1, p - 1))
           /\ IsDigits(SubSeq(str, p + 1, q - 1))
           /\ IsDigits(SubSeq(str, q + 1, Len(str)))

\* Reference: the form YYYY.MM.MICRO with a one- or two-digit MM.
YearMonthMicro(str) ==
    /\ ThreeNumbers(str)
    /\ 5 \in Dots(str)
    /\ Dots(str) \cap {7, 8} # {}

\* Reference: an optionally signed decimal integer that fits an int.
IsGoInt(str) ==
    \E sign \in {<<>>, <<"+">>, <<"-">>} :
        /\ HasPrefix(str, sign)
        /\ IsDigits(TrimPrefix(str, sign))
        /\ ~MagLess(IF sign = <<"-">> THEN MinInt64Digits ELSE MaxInt64Digits,
                    StripZeros(TrimPrefix(str, sign)))

\* Reference: str is three dot-separated Go ints.
ThreeGoInts(str) ==
    /\ Cardinality(Dots(str)) = 2
    /\ \E p \in Dots(str), q \in Dots(str) :
           /\ p < q
           /\ IsGoInt(SubSeq(str, 1, p - 1))
           /\ IsGoInt(SubSeq(str, p + 1, q - 1))
           /\ IsGoInt(SubSeq(str, q + 1, Len(str)))

\* C5 as stated: a string is calver-valid exactly when it is three
\* dot-separated non-negative integers, for the tag filter and for the
\* comparison parser alike.
C5_Original ==
    Compared_Done =>
        /\ InFiltered(cmpIn[1]) <=> ThreeNumbers(cmpIn[1])
        /\ ~cmpOut.calaa.err <=> ThreeNumbers(cmpIn[1])

\* C5, amended: the tag filter takes exactly the strings of the form
\* YYYY.MM.MICRO (four digits, one or two digits, one or more digits); the
\* comparison parser takes exactly the strings of three dot-separated
\* components that strconv.Atoi converts (an optional sign, decimal digits,
\* within the int range); a string the filter takes is taken by the
\* comparison parser too when its last component fits an int.
C5_FilterAndParserDiffer ==
    Compared_Done =>
        /\ InFiltered(cmpIn[1]) <=> YearMonthMicro(cmpIn[1])
        /\ ~cmpOut.calaa.err <=> ThreeGoInts(cmpIn[1])
        /\ (InFiltered(cmpIn[1]) /\ ThreeGoInts(cmpIn[1])) => ~cmpOut.calaa.err

C5_Witness ==
    /\ Compared_Done /\ cmpIn[1] = S_24_5_1 /\ cmpIn[2] = S_2024_1_over
    /\ ~InFiltered(cmpIn[1]) /\ ~cmpOut.calaa.err
    /\ InFiltered(cmpIn[2]) /\ cmpOut.calbb.err

\* Whether the scheme's parser takes str on its own.
Parses(str, scheme) ==
    IF scheme = "semver" THEN SemVerValid(str)
    ELSE IF scheme = "calver" THEN ~CompareCalVer(str, str).err
    ELSE TRUE

\* The comparator's verdict on two strings.
Comparator(current, latest, scheme) ==
    IF scheme = "semver" THEN CompareSemVer(current, latest).res
    ELSE IF scheme = "calver" THEN CompareCalVer(current, latest).res
    ELSE CompareString(current, latest).res

\* C6 as stated: compareVersions returns true exactly when both
\* prefix-stripped strings parse under the scheme and the comparator yields
\* Less; when either string fails to parse it returns an error.
C6_ParseFailureIsError ==
    (Compared_Done /\ CmpScheme \in {"semver", "calver", "string"}) =>
        LET current  == CmpForm(cmpIn[1], cmpPolicy)
            latest   == CmpForm(cmpIn[2], cmpPolicy)
            bothOk   == Parses(current, CmpScheme) /\ Parses(latest, CmpScheme)
        IN  /\ ~bothOk => cmpOut.needs.err # ""
            /\ cmpOut.needs.needsUpdate <=>
                   (bothOk /\ Comparator(current, latest, CmpScheme) = "Less")

\* C7: on valid semver strings Version.Compare is reflexive, antisymmetric
\* (Less one way is Greater the other, Equal one way is Equal the other) and
\* transitive.
C7_CompareIsTotalPreorder ==
    Compared_Done =>
        /\ ~cmpOut.aa.err => cmpOut.aa.res = "Equal"
        /\ ~cmpOut.ab.err =>
               /\ cmpOut.ab.res = "Less" <=> cmpOut.ba.res = "Greater"
               /\ cmpOut.ab.res = "Equal" <=> cmpOut.ba.res = "Equal"
               /\ cmpOut.ab.res = "Greater" <=> cmpOut.ba.res = "Less"
        /\ (~cmpOut.ab.err /\ ~cmpOut.bc.err) =>
               /\ (cmpOut.ab.res = "Less" /\ cmpOut.bc.res # "Greater")
                      => cmpOut.ac.res = "Less"
               /\ (cmpOut.ab.res # "Greater" /\ cmpOut.bc.res = "Less")
                      => cmpOut.ac.res = "Less"
               /\ (cmpOut.ab.res = "Equal" /\ cmpOut.bc.res = "Equal")
                      => cmpOut.ac.res = "Equal"

C7_Witness ==
    /\ Compared_Done
    /\ cmpIn = <<S_1_0_0_beta, S_v1_0_0_rc_1, S_v1_0_0>>
    /\ cmpOut.ab.res = "Less" /\ cmpOut.bc.res = "Less" /\ cmpOut.ac.res = "Less"
    /\ cmpOut.ba.res = "Greater"

\* The dot-separated numbers of a semver string's core, leading zeros away.
CoreNumbers(str) ==
    [k \in 1..3 |->
        StripZeros(Split(Before(TrimPrefix(str, <<"v">>), {"-", "+"}), ".")[k])]

\* The pre-release of a semver string: what lies between the first "-" of
\* the part before the build metadata and the "+" (empty when there is no "-").
PreRelease(str) ==
    LET noBuild == Before(str, {"+"})
    IN  IF IndexAny(noBuild, {"-"}) = 0 THEN <<>>
        ELSE SubSeq(noBuild, IndexAny(noBuild, {"-"}) + 1, Len(noBuild))

\* Reference ordering of two valid semver strings: major, minor, patch as
\* numbers, then release above pre-release, then the pre-releases as strings.
RECURSIVE NumbersOrder(_, _, _)
NumbersOrder(x, y, k) ==
    IF k > 3 THEN "Equal"
    ELSE IF MagLess(x[k], y[k]) THEN "Less"
    ELSE IF MagLess(y[k], x[k]) THEN "Greater"
    ELSE NumbersOrder(x, y, k + 1)

ReferenceOrder(a, b) ==
    IF NumbersOrder(CoreNumbers(a), CoreNumbers(b), 1) # "Equal"
    THEN NumbersOrder(CoreNumbers(a), CoreNumbers(b), 1)
    ELSE IF PreRelease(a) = PreRelease(b) THEN "Equal"
    ELSE IF PreRelease(a) = <<>> THEN "Greater"
    ELSE IF PreRelease(b) = <<>> THEN "Less"
    ELSE IF StrLess(PreRelease(a), PreRelease(b)) THEN "Less"
    ELSE "Greater"

\* C8 as stated: on valid semver strings Version.Compare is the reference
\* ordering, and current v1.0.0 against latest v1.0.0-rc.1 needs no update.
C8_CompareIsReferenceOrder ==
    Compared_Done =>
        /\ ~cmpOut.ab.err => cmpOut.ab.res = ReferenceOrder(cmpIn[1], cmpIn[2])
        /\ (cmpIn[1] = S_v1_0_0 /\ cmpIn[2] = S_v1_0_0_rc_1 /\ CmpScheme = "semver")
               => (cmpOut.needs.err = "" /\ ~cmpOut.needs.needsUpdate)

\* ---- scheme ----

Unsupported(versioning) == SchemeOf(versioning) \notin {"semver", "calver", "string"}

Unset(versioning) == versioning.IsNil \/ versioning.Scheme = ""

\* The policy with its scheme spelled out as semver.
AsSemver(versioning) ==
    IF versioning.IsNil THEN Versioning("semver", <<>>, <<>>)
    ELSE [versioning EXCEPT !.Scheme = "semver"]

ResultOrder(i) ==
    Comparator(CmpForm(results[i].CurrentVersion, reposToScan[i].Versioning),
               CmpForm(results[i].LatestVersion, reposToScan[i].Versioning),
               SchemeOf(reposToScan[i].Versioning))

\* C12 as stated: an UP_TO_DATE result has current and latest Equal under the
\* policy's comparator, an UPDATE_AVAILABLE result has current Less than
\* latest.
C12_Original ==
    Scanned_Done =>
        \A i \in 1..Len(results) :
            /\ results[i].Status = "UP_TO_DATE" => ResultOrder(i) = "Equal"
            /\ results[i].Status = "UPDATE_AVAILABLE" => ResultOrder(i) = "Less"

\* C12, amended: an UP_TO_DATE result has current Equal to or Greater than
\* latest under the policy's comparator, an UPDATE_AVAILABLE result has
\* current Less than latest.
C12_StatusFollowsOrder ==
    Scanned_Done =>
        \A i \in 1..Len(results) :
            LET order == ResultOrder(i)
            IN  /\ results[i].Status = "UP_TO_DATE" => order \in {"Equal", "Greater"}
                /\ results[i].Status = "UPDATE_AVAILABLE" => order = "Less"

C12_Witness ==
    /\ Scanned_Done /\ Len(results) = 2
    /\ results[1].Status = "UP_TO_DATE"
    /\ results[1].CurrentVersion = S_v1_3_0 /\ results[1].LatestVersion = S_v1_2_5
    /\ results[2].Status = "UPDATE_AVAILABLE"
    /\ results[2].CurrentVersion = S_v1_2_0 /\ results[2].LatestVersion = S_v1_3_0

\* ---- prefix ----

\* The tag findLatestVersionFromValidTags picks among the stripped tags.
Winner ==
    findLatestVersionFromValidTags(Candidates(selBefore, selPolicy),
                                   SchemeOf(selPolicy)).latest

\* C13: when ignorePrefix is set and selection succeeds, the reported latest
\* version is ignorePrefix followed by the winning stripped tag; it starts
\* with ignorePrefix, is one of the raw tags, and stripping ignorePrefix from
\* it gives the winning stripped tag again.
C13_PrefixRoundTrip ==
    (Selected_Ok /\ selOut.via = "scanner" /\ PrefixSet(selPolicy)) =>
        LET winner == Winner
        IN  /\ selOut.latest = selPolicy.IgnorePrefix \o winner
            /\ HasPrefix(selOut.latest, selPolicy.IgnorePrefix)
            /\ selOut.latest \in Elems(selBefore)
            /\ TrimPrefix(selOut.latest, selPolicy.IgnorePrefix) = winner
            /\ \E k \in 1..Len(selBefore) :
                   /\ HasPrefix(selBefore[k], selPolicy.IgnorePrefix)
                   /\ SubSeq(selBefore[k], Len(selPolicy.IgnorePrefix) + 1,
                             Len(selBefore[k])) = winner

C13_Witness ==
    /\ Selected_Ok /\ selOut.via = "scanner"
    /\ selPolicy = Versioning("semver", S_v, <<>>)
    /\ selBefore = <<S_v1_2_0, S_1_3_0_b1, S_v1_2_5>>
    /\ selOut.latest = S_v1_2_5

\* ---- frame ----

\* C14: selecting the latest tag leaves the caller's tag sequence as it was,
\* the same elements in the same order, for every scheme and every tag
\* collection, through version.GetLatestVersion and through
\* findLatestVersionFromValidTags alike.
C14_SelectionKeepsTags ==
    (selPc = "done" /\ SelScheme \in {"semver", "calver", "string"}) =>
        selTags = selBefore

\* ---- one result per repository ----

\* C15: runScan gives one result per repository to scan, in the order of the
\* configuration, each with one of the three statuses; a repository's result
\* is what that repository alone gives, whatever failed before it; and the
\* summary's total is the number of repositories and the sum of its three
\* counts.
C15_OneResultPerRepository ==
    Scanned_Done =>
        /\ Len(results) = Len(reposToScan)
        /\ Len(scanArgs) # 1 => reposToScan = cfgRepos
        /\ \A i \in 1..Len(results) :
               /\ results[i].Name = reposToScan[i].Name
               /\ results[i].CurrentVersion = reposToScan[i].CurrentVersion
               /\ results[i].Status \in {"UP_TO_DATE", "UPDATE_AVAILABLE", "ERROR"}
               /\ results[i] = ScanRepository(reposToScan[i])
        /\ summary.Total = Len(reposToScan)
        /\ summary.Total = summary.UpToDate + summary.UpdatesAvailable + summary.Errors

C15_Witness ==
    /\ Scanned_Done /\ Len(reposToScan) = 3 /\ Len(results) = 3
    /\ results[1].Status = "ERROR"
    /\ results[2].Status = "UPDATE_AVAILABLE"
    /\ results[3].Status = "UP_TO_DATE"
    /\ summary = [Total |-> 3, UpToDate |-> 1, UpdatesAvailable |-> 1, Errors |-> 1]

\* ---- the reported latest version in compareVersions ----

\* GetLatestVersion succeeded for result i: the result is not an error, or
\* it is the error of the comparison.
LatestFound(i) ==
    results[i].Status # "ERROR" \/ results[i].Error = "Version comparison error"

\* C16: when GetLatestVersion succeeds under scheme semver or calver, the
\* latest version it reports parses in compareVersions under the same policy
\* once ignorePrefix is stripped, so a version comparison error comes from the
\* current version only.
C16_LatestAlwaysParses ==
    Scanned_Done =>
        \A i \in 1..Len(results) :
            (LatestFound(i)
             /\ SchemeOf(reposToScan[i].Versioning) \in {"semver", "calver"}) =>
                /\ Parses(CmpForm(results[i].LatestVersion, reposToScan[i].Versioning),
                          SchemeOf(reposToScan[i].Versioning))
                /\ results[i].Error = "Version comparison error" =>
                       ~Parses(CmpForm(results[i].CurrentVersion,
                                       reposToScan[i].Versioning),
                               SchemeOf(reposToScan[i].Versioning))

====
